---- MODULE Spec2Model ----
(***************************************************************************)
(* Component scaffold generator of NewComponent.html: the name derivation  *)
(* (toPascalCase, toKebabCase) and the creation of the component, version  *)
(* and artifact tree through the File System Access API.                   *)
(*                                                                         *)
(* A string is a sequence of one-character strings.  A file or directory   *)
(* name is a string to which the fixed suffixes and prefixes of the code   *)
(* (".weBean.html", "Default", "src", ...) are attached as single atoms.   *)
(***************************************************************************)
EXTENDS Integers, Sequences, FiniteSets, TLC

\* ------------------------------------------------------------------ bounds
\* Longest text typed into the component-name field (case-converter runs).
MaxLen == 4

\* Most storage operations that fail for a reason of the storage.
MaxFaults == 2

\* ------------------------------------------------------------- characters
Lowers == {"a", "b"}
Uppers == {"A", "B"}
Digits == {"1"}
Space == " "
Puncts == {"-"}
Chars == Lowers \cup Uppers \cup Digits \cup {Space} \cup Puncts

\* String.prototype.toUpperCase / toLowerCase on one character.
toUpperCase(c) ==
    CASE c = "a" -> "A"
      [] c = "b" -> "B"
      [] OTHER -> c

toLowerCase(c) ==
    CASE c = "A" -> "a"
      [] c = "B" -> "b"
      [] OTHER -> c

\* The value of a variable that holds no string (undefined).
Undefined == <<"undefined">>

\* All texts of at most n characters.
RECURSIVE TextsUpTo(_)
TextsUpTo(n) ==
    IF n = 0 THEN {<<>>}
    ELSE LET shorter == TextsUpTo(n - 1)
         IN  shorter \cup {Append(t, c) : t \in {s \in shorter : Len(s) = n - 1}, c \in Chars}

Texts == TextsUpTo(MaxLen)

\* --------------------------------------------------------- case converter
\* str.replace(/[^a-zA-Z0-9 ]/g, '')
KeptByRegex(c) == c \in Lowers \cup Uppers \cup Digits \cup {Space}

\* Variant: nothing is removed.
StripNothing(str) == str

StripNonAlnum(str) == SelectSeq(str, KeptByRegex)

\* Index of the first space of str, 0 when there is none.
RECURSIVE FirstSpaceFrom(_, _)
FirstSpaceFrom(str, i) ==
    IF i > Len(str) THEN 0
    ELSE IF str[i] = Space THEN i
    ELSE FirstSpaceFrom(str, i + 1)

\* str.split(' '): every single space separates, so that two adjacent
\* spaces, a leading space or a trailing space give an empty word, and the
\* empty string gives one empty word.
RECURSIVE SplitOnSpace(_)
SplitOnSpace(str) ==
    LET i == FirstSpaceFrom(str, 1)
    IN  IF i = 0 THEN <<str>>
        ELSE <<SubSeq(str, 1, i - 1)>> \o SplitOnSpace(SubSeq(str, i + 1, Len(str)))

\* words.join(sep)
RECURSIVE JoinWords(_, _)
JoinWords(words, sep) ==
    IF Len(words) = 0 THEN <<>>
    ELSE IF Len(words) = 1 THEN words[1]
    ELSE words[1] \o sep \o JoinWords(Tail(words), sep)

RECURSIVE LowerWord(_)
LowerWord(word) ==
    IF Len(word) = 0 THEN <<>>
    ELSE <<toLowerCase(Head(word))>> \o LowerWord(Tail(word))

\* A word every character of which is already uppercase
\* (word === word.toUpperCase(), the word not empty).
AllUppercase(word) ==
    /\ Len(word) > 0
    /\ \A i \in 1..Len(word) : word[i] = toUpperCase(word[i])

\* Variant: a word that is already fully uppercase is kept as it is.
PascalWordKeepUppercase(word) ==
    IF Len(word) = 0 THEN <<>>
    ELSE IF AllUppercase(word) THEN word
    ELSE <<toUpperCase(Head(word))>> \o LowerWord(Tail(word))

\* Variant: word.charAt(0).toUpperCase() + word.slice(0).toLowerCase()
PascalWordSliceFromZero(word) ==
    IF Len(word) = 0 THEN <<>>
    ELSE <<toUpperCase(Head(word))>> \o LowerWord(word)

\* word.charAt(0).toUpperCase() + word.slice(1).toLowerCase()
PascalWord(word) ==
    IF Len(word) = 0 THEN <<>>
    ELSE <<toUpperCase(Head(word))>> \o LowerWord(Tail(word))

RECURSIVE MapPascal(_)
MapPascal(words) ==
    IF Len(words) = 0 THEN <<>>
    ELSE <<PascalWord(Head(words))>> \o MapPascal(Tail(words))

RECURSIVE MapLower(_)
MapLower(words) ==
    IF Len(words) = 0 THEN <<>>
    ELSE <<LowerWord(Head(words))>> \o MapLower(Tail(words))

toPascalCase(str) == JoinWords(MapPascal(SplitOnSpace(StripNonAlnum(str))), <<>>)

\* Variant: the words are joined without being lowercased.
toKebabCaseKeepCase(str) == JoinWords(SplitOnSpace(StripNonAlnum(str)), <<"-">>)

toKebabCase(str) == JoinWords(MapLower(SplitOnSpace(StripNonAlnum(str))), <<"-">>)

\* ------------------------------------------------------- generator inputs
\* Names typed into the component-name field in generator runs.
Names == {<<"a", Space, "b">>, <<"-">>}

\* The options of the componentVersion select.
Versions == {<<"3.1.0">>, <<"3.1.1">>}

\* Texts typed into the componentDescription field.
Descriptions == {<<"d">>}

\* Directories the user can pick with showDirectoryPicker: a parent
\* directory R and its child R/AB, which bears the name of a component.
RootDir == <<(<<"R">>)>>
ComponentNamedDir == <<(<<"R">>), (<<"A", "B">>)>>

\* Storage trees a run starts from: the parent alone, the parent with the
\* component directory, and the latter with an (empty) version directory.
InitialTrees ==
    { {RootDir},
      {RootDir, ComponentNamedDir},
      {RootDir, ComponentNamedDir, ComponentNamedDir \o <<(<<"3.1.0">>)>>} }
PickableDirs == {RootDir, ComponentNamedDir}

Procs == {1, 2}

\* A handle is the path of its entry; no handle (undefined) is the empty path.
NoHandle == <<>>

\* FileSystemHandle.name
HandleName(h) == h[Len(h)]

\* ------------------------------------------------------ artifact contents
\* The text of a generated file: the template it was rendered from and the
\* values substituted into it.
Content(kind, pascal, kebab, description, path) ==
    [kind |-> kind, pascal |-> pascal, kebab |-> kebab,
     description |-> description, componentPath |-> path]

\* A file of zero length.
EmptyContent == Content("empty", <<>>, <<>>, <<>>, <<>>)

weBeanFileContent(pascalCaseName, kebabCaseName) ==
    Content("weBean", pascalCaseName, kebabCaseName, <<>>, <<>>)

classJsFileContent(pascalCaseName, componentDescription) ==
    Content("classJs", pascalCaseName, <<>>, componentDescription, <<>>)

lessFileContent(kebabCaseName) ==
    Content("less", <<>>, kebabCaseName, <<>>, <<>>)

testHtmlFileContent(pascalCaseName, componentPath) ==
    Content("testHtml", pascalCaseName, <<>>, <<>>, componentPath)

\* ------------------------------------------ steps of createVersionStructure
\* Variant: the weBean file is created before the weBeans folder.
StructureStepsFileFirst ==
    << "src", "srcHtml", "srcJs", "srcLess",
       "weBeanFile", "weBeanWritable", "weBeanWrite", "weBeanClose", "weBeans",
       "classJsFile", "classJsWritable", "classJsWrite", "classJsClose",
       "lessFile", "lessWritable", "lessWrite", "lessClose",
       "test", "testHtml", "testJs",
       "testHtmlFile", "testHtmlWritable", "testHtmlWrite", "testHtmlClose",
       "xmlFile", "xmlWritable", "xmlClose" >>

\* Variant: the manifest is created before the test folders.
StructureStepsManifestEarly ==
    << "src", "srcHtml", "srcJs", "srcLess", "weBeans",
       "weBeanFile", "weBeanWritable", "weBeanWrite", "weBeanClose",
       "classJsFile", "classJsWritable", "classJsWrite", "classJsClose",
       "lessFile", "lessWritable", "lessWrite", "lessClose",
       "xmlFile", "xmlWritable", "xmlClose",
       "test", "testHtml", "testJs",
       "testHtmlFile", "testHtmlWritable", "testHtmlWrite", "testHtmlClose" >>

\* Variant: every folder is filled before its next sibling is created.
StructureStepsDepthFirst ==
    << "src", "srcHtml", "weBeans",
       "weBeanFile", "weBeanWritable", "weBeanWrite", "weBeanClose",
       "srcJs",
       "classJsFile", "classJsWritable", "classJsWrite", "classJsClose",
       "srcLess",
       "lessFile", "lessWritable", "lessWrite", "lessClose",
       "test", "testHtml",
       "testHtmlFile", "testHtmlWritable", "testHtmlWrite", "testHtmlClose",
       "testJs",
       "xmlFile", "xmlWritable", "xmlClose" >>

\* One step per await of createVersionStructure, in the order of the code.
StructureSteps ==
    << "src", "srcHtml", "srcJs", "srcLess", "weBeans",
       "weBeanFile", "weBeanWritable", "weBeanWrite", "weBeanClose",
       "classJsFile", "classJsWritable", "classJsWrite", "classJsClose",
       "lessFile", "lessWritable", "lessWrite", "lessClose",
       "test", "testHtml", "testJs",
       "testHtmlFile", "testHtmlWritable", "testHtmlWrite", "testHtmlClose",
       "xmlFile", "xmlWritable", "xmlClose" >>

DirectorySteps == {"src", "srcHtml", "srcJs", "srcLess", "weBeans", "test", "testHtml", "testJs"}
FileSteps == {"weBeanFile", "classJsFile", "lessFile", "testHtmlFile", "xmlFile"}
WritableSteps == {"weBeanWritable", "classJsWritable", "lessWritable", "testHtmlWritable", "xmlWritable"}
WriteSteps == {"weBeanWrite", "classJsWrite", "lessWrite", "testHtmlWrite"}
CloseSteps == {"weBeanClose", "classJsClose", "lessClose", "testHtmlClose", "xmlClose"}

StepIndex(step) == CHOOSE i \in 1..Len(StructureSteps) : StructureSteps[i] = step

\* The await that follows a step, "done" after the last one.
StepAfter(step) ==
    IF StepIndex(step) = Len(StructureSteps) THEN "done"
    ELSE StructureSteps[StepIndex(step) + 1]

\* The handles createVersionStructure holds, as paths under the version folder.
srcFolderHandle(v) == v \o <<(<<"src">>)>>
htmlFolderHandle(v) == srcFolderHandle(v) \o <<(<<"html">>)>>
jsFolderHandle(v) == srcFolderHandle(v) \o <<(<<"js">>)>>
lessFolderHandle(v) == srcFolderHandle(v) \o <<(<<"less">>)>>
weBeansFolderHandle(v) == htmlFolderHandle(v) \o <<(<<"weBeans">>)>>
testFolderHandle(v) == v \o <<(<<"test">>)>>
testHtmlFolderHandle(v) == testFolderHandle(v) \o <<(<<"html">>)>>

weBeanFileName(pascalCaseName) == pascalCaseName \o <<".weBean.html">>
classJsFileName(pascalCaseName) == pascalCaseName \o <<".class.js">>
lessFileName(pascalCaseName) == <<"Default">> \o pascalCaseName \o <<".less">>
testHtmlFileName(pascalCaseName) == pascalCaseName \o <<".html">>
xmlFileName(pascalCaseName) == pascalCaseName \o <<".component.xml">>

\* The directory a getDirectoryHandle or getFileHandle step is called on.
StepReceiver(step, v) ==
    CASE step \in {"src", "test", "xmlFile"} -> v
      [] step \in {"srcHtml", "srcJs", "srcLess"} -> srcFolderHandle(v)
      [] step = "weBeans" -> htmlFolderHandle(v)
      [] step = "weBeanFile" -> weBeansFolderHandle(v)
      [] step = "classJsFile" -> jsFolderHandle(v)
      [] step = "lessFile" -> lessFolderHandle(v)
      [] step \in {"testHtml", "testJs"} -> testFolderHandle(v)
      [] step = "testHtmlFile" -> testHtmlFolderHandle(v)

\* Variant: the third folder of test is asked for under the name html again.
StepNameHtmlTwice(step, pascalCaseName) ==
    CASE step = "src" -> <<"src">>
      [] step \in {"srcHtml", "testHtml", "testJs"} -> <<"html">>
      [] step = "srcJs" -> <<"js">>
      [] step = "srcLess" -> <<"less">>
      [] step = "weBeans" -> <<"weBeans">>
      [] step = "test" -> <<"test">>
      [] step = "weBeanFile" -> weBeanFileName(pascalCaseName)
      [] step = "classJsFile" -> classJsFileName(pascalCaseName)
      [] step = "lessFile" -> lessFileName(pascalCaseName)
      [] step = "testHtmlFile" -> testHtmlFileName(pascalCaseName)
      [] step = "xmlFile" -> xmlFileName(pascalCaseName)

\* The name a getDirectoryHandle or getFileHandle step asks for.
StepName(step, pascalCaseName) ==
    CASE step = "src" -> <<"src">>
      [] step \in {"srcHtml", "testHtml"} -> <<"html">>
      [] step \in {"srcJs", "testJs"} -> <<"js">>
      [] step = "srcLess" -> <<"less">>
      [] step = "weBeans" -> <<"weBeans">>
      [] step = "test" -> <<"test">>
      [] step = "weBeanFile" -> weBeanFileName(pascalCaseName)
      [] step = "classJsFile" -> classJsFileName(pascalCaseName)
      [] step = "lessFile" -> lessFileName(pascalCaseName)
      [] step = "testHtmlFile" -> testHtmlFileName(pascalCaseName)
      [] step = "xmlFile" -> xmlFileName(pascalCaseName)

\* The file step whose handle a createWritable, write or close step works on.
FileStepOf(step) ==
    CASE step \in {"weBeanWritable", "weBeanWrite", "weBeanClose"} -> "weBeanFile"
      [] step \in {"classJsWritable", "classJsWrite", "classJsClose"} -> "classJsFile"
      [] step \in {"lessWritable", "lessWrite", "lessClose"} -> "lessFile"
      [] step \in {"testHtmlWritable", "testHtmlWrite", "testHtmlClose"} -> "testHtmlFile"
      [] step \in {"xmlWritable", "xmlClose"} -> "xmlFile"

\* ------------------------------------------------------------------ state
VARIABLES
    selectedDirectoryHandle,  \* the global of line 84: a handle or NoHandle
    dirs,          \* storage: the paths of the directories that exist
    files,         \* storage: the content of every file that exists, by path
    inv,           \* per invocation of the submit handler: its locals and position
    faults,        \* number of storage operations that have failed for a reason of the storage
    pickFailed,    \* the last pick ended with the alert "Failed to select directory"
    generated,     \* history: the inputs of the ended invocations that created their version directory
    text,          \* case-converter run: the text typed into the name field
    pascalOut,     \* toPascalCase(text), as computed at line 431
    kebabOut,      \* toKebabCase(text)
    pascalTwice,   \* toPascalCase(pascalOut), as computed at line 142
    kebabOfPascal  \* toKebabCase(pascalOut), as computed at line 143

caseVars == <<text, pascalOut, kebabOut, pascalTwice, kebabOfPascal>>

storageVars == <<selectedDirectoryHandle, dirs, files, inv, faults, generated, pickFailed>>

vars == <<selectedDirectoryHandle, dirs, files, inv, faults, generated, pickFailed,
          text, pascalOut, kebabOut, pascalTwice, kebabOfPascal>>

\* No file at all.
NoFiles == [f \in {} |-> EmptyContent]

\* The locals of an invocation that has not started.
IdleInvocation ==
    [pc |-> "idle",
     componentName |-> Undefined,
     version |-> Undefined,
     componentDescription |-> Undefined,
     pascalCaseName |-> Undefined,
     componentFolderHandle |-> NoHandle,
     versionFolderHandle |-> NoHandle,
     receiver |-> NoHandle,
     structPascalCaseName |-> Undefined,
     structKebabCaseName |-> Undefined,
     componentPath |-> NoHandle,
     buffer |-> EmptyContent,
     outcome |-> "none",
     cause |-> "none",
     ops |-> <<>>,
     faulted |-> FALSE,
     selectedAtStart |-> NoHandle,
     dirsAtStart |-> {},
     filesAtStart |-> NoFiles]

\* ---------------------------------------------------------------- storage
\* Whether the next storage operation fails for a reason of the storage
\* (permission, invalidated handle, quota, I/O).
FaultChoices == IF faults < MaxFaults THEN BOOLEAN ELSE {FALSE}

\* Variant: a lookup finds a directory that another invocation is about to
\* create, as if check and creation were one atomic step.
GetDirectoryErrorLocked(dir, name, create, fault) ==
    IF fault THEN "StorageFault"
    ELSE IF name = <<>> THEN "TypeError"
    ELSE IF dir \notin dirs THEN "NotFoundError"
    ELSE IF (dir \o <<name>>) \in dirs THEN "none"
    ELSE IF (dir \o <<name>>) \in DOMAIN files THEN "TypeMismatchError"
    ELSE IF create THEN "none"
    ELSE IF \E q \in Procs : /\ inv[q].pc = "createVersion"
                             /\ inv[q].receiver = dir
                             /\ inv[q].version = name
         THEN "none"
    ELSE "NotFoundError"

\* directoryHandle.getDirectoryHandle(name, {create}): the error it rejects
\* with, "none" when it resolves.
GetDirectoryError(dir, name, create, fault) ==
    IF fault THEN "StorageFault"
    ELSE IF name = <<>> THEN "TypeError"
    ELSE IF dir \notin dirs THEN "NotFoundError"
    ELSE IF (dir \o <<name>>) \in dirs THEN "none"
    ELSE IF (dir \o <<name>>) \in DOMAIN files THEN "TypeMismatchError"
    ELSE IF create THEN "none"
    ELSE "NotFoundError"

\* Variant: a failing getDirectoryHandle removes the directory it was called on.
DirsAfterGetDirectoryUndone(dir, name, create, fault) ==
    IF GetDirectoryError(dir, name, create, fault) = "none"
    THEN (IF create THEN dirs \cup {dir \o <<name>>} ELSE dirs)
    ELSE dirs \ {dir}

DirsAfterGetDirectory(dir, name, create, fault) ==
    IF GetDirectoryError(dir, name, create, fault) = "none" /\ create
    THEN dirs \cup {dir \o <<name>>}
    ELSE dirs

\* directoryHandle.getFileHandle(name, {create: true})
GetFileError(dir, name, fault) ==
    IF fault THEN "StorageFault"
    ELSE IF name = <<>> THEN "TypeError"
    ELSE IF dir \notin dirs THEN "NotFoundError"
    ELSE IF (dir \o <<name>>) \in dirs THEN "TypeMismatchError"
    ELSE "none"

FilesWith(path, content) ==
    [f \in DOMAIN files \cup {path} |-> IF f = path THEN content ELSE files[f]]

\* A file that getFileHandle creates is empty; one that exists is kept.
FilesAfterGetFile(dir, name, fault) ==
    IF GetFileError(dir, name, fault) = "none" /\ (dir \o <<name>>) \notin DOMAIN files
    THEN FilesWith(dir \o <<name>>, EmptyContent)
    ELSE files

\* One storage operation as an invocation issued it.
Operation(op, on, name, create, error) ==
    [op |-> op, on |-> on, name |-> name, create |-> create,
     ok |-> (error = "none"), error |-> error]

\* -------------------------------------------------------------- selection
\* selectDirectory: the picker resolves with directory d.
SelectDirectory(d) ==
    /\ d \in dirs
    /\ selectedDirectoryHandle' = d
    /\ pickFailed' = FALSE
    /\ UNCHANGED <<dirs, files, inv, faults, generated, caseVars>>

\* selectDirectory: the picker rejects, the user cancelled or the pick
\* failed.  The catch block alerts; selectedDirectoryHandle keeps its value.
SelectDirectoryFails ==
    /\ pickFailed' = TRUE
    /\ UNCHANGED <<selectedDirectoryHandle, dirs, files, inv, faults, generated, caseVars>>

\* ------------------------------------------------ the submit handler
\* createVersionFolder up to its first await: the existence check of the
\* version folder is issued on the component folder.
EnterCreateVersionFolder(r, componentFolderHandle) ==
    [r EXCEPT !.pc = "checkVersion",
              !.componentFolderHandle = componentFolderHandle,
              !.receiver = componentFolderHandle]

\* Variant: the selected folder is always taken for the parent.
IsParentFolderAlways(selected, pascalCaseName) == FALSE

\* selectedDirectoryHandle.name === pascalCaseName: the selected folder is
\* the component folder itself.
IsComponentFolder(selected, pascalCaseName) == HandleName(selected) = pascalCaseName

\* Variant: the form is processed without looking whether a directory is selected.
SubmitUnchecked(p) ==
    /\ inv[p].pc = "idle"
    /\ \E componentName \in Names, version \in Versions, componentDescription \in Descriptions :
         LET started == [IdleInvocation EXCEPT
                            !.componentName = componentName,
                            !.version = version,
                            !.componentDescription = componentDescription,
                            !.selectedAtStart = selectedDirectoryHandle,
                            !.dirsAtStart = dirs,
                            !.filesAtStart = files]
             pascalCaseName == toPascalCase(componentName)
             named == [started EXCEPT !.pascalCaseName = pascalCaseName]
         IN  inv' = [inv EXCEPT ![p] =
                 IF /\ selectedDirectoryHandle # NoHandle
                    /\ IsComponentFolder(selectedDirectoryHandle, pascalCaseName)
                 THEN EnterCreateVersionFolder(named, selectedDirectoryHandle)
                 ELSE [named EXCEPT !.pc = "checkComponent",
                                    !.receiver = selectedDirectoryHandle]]
    /\ UNCHANGED <<selectedDirectoryHandle, dirs, files, faults, generated, pickFailed, caseVars>>

\* The submit handler and createComponentAndVersionFolders up to the first await.
Submit(p) ==
    /\ inv[p].pc = "idle"
    /\ \E componentName \in Names, version \in Versions, componentDescription \in Descriptions :
         LET started == [IdleInvocation EXCEPT
                            !.componentName = componentName,
                            !.version = version,
                            !.componentDescription = componentDescription,
                            !.selectedAtStart = selectedDirectoryHandle,
                            !.dirsAtStart = dirs,
                            !.filesAtStart = files]
             pascalCaseName == toPascalCase(componentName)
             named == [started EXCEPT !.pascalCaseName = pascalCaseName]
         IN  inv' = [inv EXCEPT ![p] =
                 IF selectedDirectoryHandle = NoHandle
                 THEN [started EXCEPT !.pc = "done", !.outcome = "selectFirst"]
                 ELSE IF IsComponentFolder(selectedDirectoryHandle, pascalCaseName)
                 THEN EnterCreateVersionFolder(named, selectedDirectoryHandle)
                 ELSE [named EXCEPT !.pc = "checkComponent",
                                    !.receiver = selectedDirectoryHandle]]
    /\ UNCHANGED <<selectedDirectoryHandle, dirs, files, faults, generated, pickFailed, caseVars>>

\* An invocation whose promise rejected: nothing catches the error.
Rejected(r, operation) ==
    [r EXCEPT !.pc = "done", !.outcome = "unhandled", !.ops = Append(@, operation)]

\* checkIfFolderExists(selectedDirectoryHandle, pascalCaseName) settles: any
\* error counts as "does not exist".  The next getDirectoryHandle is called
\* on what selectedDirectoryHandle holds now.
CheckComponentFolder(p) ==
    /\ inv[p].pc = "checkComponent"
    /\ \E fault \in FaultChoices :
         LET r == inv[p]
             error == GetDirectoryError(r.receiver, r.pascalCaseName, FALSE, fault)
             operation == Operation("getDirectoryHandle", r.receiver, r.pascalCaseName, FALSE, error)
             componentFolderExists == (error = "none")
         IN  /\ inv' = [inv EXCEPT ![p] =
                   [r EXCEPT !.pc = IF componentFolderExists THEN "getComponent" ELSE "createComponent",
                             !.receiver = selectedDirectoryHandle,
                             !.ops = Append(@, operation),
                             !.faulted = @ \/ fault]]
             /\ faults' = IF fault THEN faults + 1 ELSE faults
    /\ UNCHANGED <<selectedDirectoryHandle, dirs, files, generated, pickFailed, caseVars>>

\* The getDirectoryHandle of line 443 (no create) or 446 (create) settles.
GetComponentFolder(p) ==
    /\ inv[p].pc \in {"getComponent", "createComponent"}
    /\ \E fault \in FaultChoices :
         LET r == inv[p]
             create == (r.pc = "createComponent")
             error == GetDirectoryError(r.receiver, r.pascalCaseName, create, fault)
             operation == Operation("getDirectoryHandle", r.receiver, r.pascalCaseName, create, error)
         IN  /\ dirs' = DirsAfterGetDirectory(r.receiver, r.pascalCaseName, create, fault)
             /\ inv' = [inv EXCEPT ![p] =
                   IF error = "none"
                   THEN EnterCreateVersionFolder(
                            [r EXCEPT !.ops = Append(@, operation)],
                            r.receiver \o <<r.pascalCaseName>>)
                   ELSE [Rejected(r, operation) EXCEPT !.faulted = @ \/ fault]]
             /\ faults' = IF fault THEN faults + 1 ELSE faults
    /\ UNCHANGED <<selectedDirectoryHandle, files, generated, pickFailed, caseVars>>

\* checkIfFolderExists(componentFolderHandle, version) settles.
CheckVersionFolder(p) ==
    /\ inv[p].pc = "checkVersion"
    /\ \E fault \in FaultChoices :
         LET r == inv[p]
             error == GetDirectoryError(r.receiver, r.version, FALSE, fault)
             operation == Operation("getDirectoryHandle", r.receiver, r.version, FALSE, error)
             versionFolderExists == (error = "none")
         IN  /\ inv' = [inv EXCEPT ![p] =
                   IF versionFolderExists
                   THEN [r EXCEPT !.pc = "done", !.outcome = "exists",
                                  !.ops = Append(@, operation)]
                   ELSE [r EXCEPT !.pc = "createVersion",
                                  !.ops = Append(@, operation),
                                  !.faulted = @ \/ fault]]
             /\ faults' = IF fault THEN faults + 1 ELSE faults
    /\ UNCHANGED <<selectedDirectoryHandle, dirs, files, generated, pickFailed, caseVars>>

\* componentFolderHandle.getDirectoryHandle(version, {create: true}) settles;
\* createVersionStructure starts and issues its first getDirectoryHandle.
CreateVersionFolder(p) ==
    /\ inv[p].pc = "createVersion"
    /\ \E fault \in FaultChoices :
         LET r == inv[p]
             error == GetDirectoryError(r.receiver, r.version, TRUE, fault)
             operation == Operation("getDirectoryHandle", r.receiver, r.version, TRUE, error)
         IN  /\ dirs' = DirsAfterGetDirectory(r.receiver, r.version, TRUE, fault)
             /\ inv' = [inv EXCEPT ![p] =
                   IF error = "none"
                   THEN [r EXCEPT !.pc = StructureSteps[1],
                                  !.versionFolderHandle = r.receiver \o <<r.version>>,
                                  !.receiver = r.receiver \o <<r.version>>,
                                  !.ops = Append(@, operation)]
                   ELSE [Rejected(r, operation) EXCEPT !.faulted = @ \/ fault]]
             /\ faults' = IF fault THEN faults + 1 ELSE faults
    /\ UNCHANGED <<selectedDirectoryHandle, files, generated, pickFailed, caseVars>>


\* ------------------------------------------------ createVersionStructure
\* The path of the file a file, createWritable, write or close step works on.
StepFile(step, r) ==
    LET fileStep == IF step \in FileSteps THEN step ELSE FileStepOf(step)
    IN  StepReceiver(fileStep, r.versionFolderHandle)
            \o <<StepName(fileStep, r.structPascalCaseName)>>

\* What a write step writes.
StepContent(step, r) ==
    CASE step = "weBeanWrite" ->
             weBeanFileContent(r.structPascalCaseName, r.structKebabCaseName)
      [] step = "classJsWrite" ->
             classJsFileContent(r.structPascalCaseName, r.componentDescription)
      [] step = "lessWrite" ->
             lessFileContent(r.structKebabCaseName)
      [] step = "testHtmlWrite" ->
             testHtmlFileContent(r.structPascalCaseName, r.componentPath)

\* Variant: the path starts with the name of the component folder.
componentPathFromComponentFolder(selected, r) ==
    << HandleName(r.componentFolderHandle),
       HandleName(r.versionFolderHandle),
       xmlFileName(r.structPascalCaseName) >>

\* The componentPath of line 286, "/" between its three parts: the name of
\* the folder selectedDirectoryHandle holds, the name of the version folder
\* and the name of the manifest.
componentPath(selected, r) ==
    << HandleName(selected),
       HandleName(r.versionFolderHandle),
       xmlFileName(r.structPascalCaseName) >>

\* The synchronous code between the await of a step and the next await.
\* createVersionStructure receives pascalCaseName as its componentName
\* (line 451) and converts it again (lines 142 and 143).
Continue(step, r, operation) ==
    LET next == [r EXCEPT !.pc = StepAfter(step), !.ops = Append(@, operation)]
    IN  CASE step = "weBeans" ->
                 [next EXCEPT !.structPascalCaseName = toPascalCase(r.pascalCaseName),
                              !.structKebabCaseName = toKebabCase(r.pascalCaseName)]
          [] step = "testHtmlFile" ->
                 [next EXCEPT !.componentPath = componentPath(selectedDirectoryHandle, r)]
          [] step = "xmlClose" ->
                 [next EXCEPT !.outcome = "success"]
          [] OTHER -> next

\* The catch block of createVersionStructure: the alert reports the failure
\* with error.message, the cause.
Caught(r, operation, error, fault) ==
    [r EXCEPT !.pc = "done", !.outcome = "failed", !.cause = error,
              !.ops = Append(@, operation), !.faulted = @ \/ fault]

\* Variant: a rejected operation does not leave the try block.
SettleIgnoringError(step, r, operation, error, fault) ==
    Continue(step, r, operation)

\* An await inside the try block of createVersionStructure settles.
Settle(step, r, operation, error, fault) ==
    IF error = "none" THEN Continue(step, r, operation)
    ELSE Caught(r, operation, error, fault)

\* A getDirectoryHandle(name, {create: true}) of createVersionStructure settles.
CreateStructureDirectory(p) ==
    /\ inv[p].pc \in DirectorySteps
    /\ \E fault \in FaultChoices :
         LET r == inv[p]
             on == StepReceiver(r.pc, r.versionFolderHandle)
             name == StepName(r.pc, r.structPascalCaseName)
             error == GetDirectoryError(on, name, TRUE, fault)
             operation == Operation("getDirectoryHandle", on, name, TRUE, error)
         IN  /\ dirs' = DirsAfterGetDirectory(on, name, TRUE, fault)
             /\ inv' = [inv EXCEPT ![p] = Settle(r.pc, r, operation, error, fault)]
             /\ faults' = IF fault THEN faults + 1 ELSE faults
    /\ UNCHANGED <<selectedDirectoryHandle, files, generated, pickFailed, caseVars>>

\* A getFileHandle(name, {create: true}) of createVersionStructure settles.
CreateStructureFile(p) ==
    /\ inv[p].pc \in FileSteps
    /\ \E fault \in FaultChoices :
         LET r == inv[p]
             on == StepReceiver(r.pc, r.versionFolderHandle)
             name == StepName(r.pc, r.structPascalCaseName)
             error == GetFileError(on, name, fault)
             operation == Operation("getFileHandle", on, name, TRUE, error)
         IN  /\ files' = FilesAfterGetFile(on, name, fault)
             /\ inv' = [inv EXCEPT ![p] = Settle(r.pc, r, operation, error, fault)]
             /\ faults' = IF fault THEN faults + 1 ELSE faults
    /\ UNCHANGED <<selectedDirectoryHandle, dirs, generated, pickFailed, caseVars>>

\* fileHandle.createWritable() settles: the stream starts empty and the file
\* keeps its content until the stream is closed.
OpenWritable(p) ==
    /\ inv[p].pc \in WritableSteps
    /\ \E fault \in FaultChoices :
         LET r == inv[p]
             file == StepFile(r.pc, r)
             error == IF fault THEN "StorageFault"
                      ELSE IF file \notin DOMAIN files THEN "NotFoundError"
                      ELSE "none"
             operation == Operation("createWritable", file, <<>>, FALSE, error)
         IN  /\ inv' = [inv EXCEPT ![p] =
                   Settle(r.pc, [r EXCEPT !.buffer = EmptyContent], operation, error, fault)]
             /\ faults' = IF fault THEN faults + 1 ELSE faults
    /\ UNCHANGED <<selectedDirectoryHandle, dirs, files, generated, pickFailed, caseVars>>

\* writable.write(content) settles.
WriteContent(p) ==
    /\ inv[p].pc \in WriteSteps
    /\ \E fault \in FaultChoices :
         LET r == inv[p]
             error == IF fault THEN "StorageFault" ELSE "none"
             operation == Operation("write", StepFile(r.pc, r), <<>>, FALSE, error)
             written == IF fault THEN r ELSE [r EXCEPT !.buffer = StepContent(r.pc, r)]
         IN  /\ inv' = [inv EXCEPT ![p] = Settle(r.pc, written, operation, error, fault)]
             /\ faults' = IF fault THEN faults + 1 ELSE faults
    /\ UNCHANGED <<selectedDirectoryHandle, dirs, files, generated, pickFailed, caseVars>>

\* writable.close() settles: what was written replaces the file's content.
CloseWritable(p) ==
    /\ inv[p].pc \in CloseSteps
    /\ \E fault \in FaultChoices :
         LET r == inv[p]
             file == StepFile(r.pc, r)
             error == IF fault THEN "StorageFault" ELSE "none"
             operation == Operation("close", file, <<>>, FALSE, error)
         IN  /\ files' = IF fault THEN files ELSE FilesWith(file, r.buffer)
             /\ inv' = [inv EXCEPT ![p] = Settle(r.pc, r, operation, error, fault)]
             /\ faults' = IF fault THEN faults + 1 ELSE faults
    /\ UNCHANGED <<selectedDirectoryHandle, dirs, generated, pickFailed, caseVars>>

\* What the user gave an invocation: the directory selected when the form
\* was submitted and the values of the three fields.
Inputs(r) ==
    <<r.selectedAtStart, r.componentName, r.version, r.componentDescription>>

\* The getDirectoryHandle of line 417 resolved and the version folder did
\* not exist when the form was submitted.
CreatedVersionFolder(r) ==
    /\ r.versionFolderHandle # NoHandle
    /\ r.versionFolderHandle \notin r.dirsAtStart

\* The submit handler has returned; the form can be submitted again.
Return(p) ==
    /\ inv[p].pc = "done"
    /\ inv' = [inv EXCEPT ![p] = IdleInvocation]
    /\ generated' = IF CreatedVersionFolder(inv[p])
                    THEN generated \cup {Inputs(inv[p])}
                    ELSE generated
    /\ UNCHANGED <<selectedDirectoryHandle, dirs, files, faults, pickFailed, caseVars>>

\* ------------------------------------------------------- generator runs
Init ==
    /\ selectedDirectoryHandle = NoHandle
    /\ dirs \in InitialTrees
    /\ files = NoFiles
    /\ inv = [p \in Procs |-> IdleInvocation]
    /\ faults = 0
    /\ generated = {}
    /\ pickFailed = FALSE
    /\ text = <<>>
    /\ pascalOut = Undefined
    /\ kebabOut = Undefined
    /\ pascalTwice = Undefined
    /\ kebabOfPascal = Undefined

NoInvocationInFlight == \A p \in Procs : inv[p].pc \in {"idle", "done"}

\* One invocation from the submission of the form to its end.
Invocation(p) ==
    \/ Submit(p)
    \/ CheckComponentFolder(p)
    \/ GetComponentFolder(p)
    \/ CheckVersionFolder(p)
    \/ CreateVersionFolder(p)
    \/ CreateStructureDirectory(p)
    \/ CreateStructureFile(p)
    \/ OpenWritable(p)
    \/ WriteContent(p)
    \/ CloseWritable(p)

Step(p) ==
    \/ Invocation(p)
    \/ Return(p)

\* One invocation at a time: the user picks a directory and submits the
\* form while no invocation is in flight.
Next ==
    \/ \E d \in PickableDirs : NoInvocationInFlight /\ SelectDirectory(d)
    \/ Step(1)

Spec == Init /\ [][Next]_vars

\* The invocations are numbered in the order of their submission.
InSubmissionOrder(p) == \A q \in Procs : q < p => inv[q].pc # "idle"

\* Nothing disables the form while an invocation awaits the storage: the
\* user can submit again at any await, and the invocations interleave at
\* their awaits.  Two submissions are explored, one invocation each, on a
\* directory picked beforehand.
NextConcurrent ==
    \/ \E d \in PickableDirs : NoInvocationInFlight /\ SelectDirectory(d)
    \/ \E p \in Procs : InSubmissionOrder(p) /\ Invocation(p)

\* Concurrent runs are explored on a storage that does not fail: the
\* failures have been spent before the run starts.
InitConcurrent ==
    /\ selectedDirectoryHandle = NoHandle
    /\ dirs \in InitialTrees
    /\ files = NoFiles
    /\ inv = [p \in Procs |-> IdleInvocation]
    /\ faults = MaxFaults
    /\ generated = {}
    /\ pickFailed = FALSE
    /\ text = <<>>
    /\ pascalOut = Undefined
    /\ kebabOut = Undefined
    /\ pascalTwice = Undefined
    /\ kebabOfPascal = Undefined

SpecConcurrent == InitConcurrent /\ [][NextConcurrent]_vars

\* Nothing disables the select button while an invocation awaits the
\* storage: the picker can resolve at any await of the invocation.
NextReselect ==
    \/ \E d \in PickableDirs : SelectDirectory(d)
    \/ Step(1)

SpecReselect == InitConcurrent /\ [][NextReselect]_vars

\* The picker can also reject: the user submits the form after picks that
\* succeeded, were cancelled or failed.
NextPick ==
    \/ \E d \in PickableDirs : NoInvocationInFlight /\ SelectDirectory(d)
    \/ NoInvocationInFlight /\ SelectDirectoryFails
    \/ Step(1)

SpecPick == InitConcurrent /\ [][NextPick]_vars

\* ------------------------------------------------- case-converter runs
CaseInit ==
    /\ text \in Texts
    /\ pascalOut = Undefined
    /\ kebabOut = Undefined
    /\ pascalTwice = Undefined
    /\ kebabOfPascal = Undefined
    /\ selectedDirectoryHandle = NoHandle
    /\ dirs = {RootDir}
    /\ files = NoFiles
    /\ inv = [p \in Procs |-> IdleInvocation]
    /\ faults = 0
    /\ generated = {}
    /\ pickFailed = FALSE

\* toPascalCase(componentName) of line 431.
ApplyPascal ==
    /\ pascalOut = Undefined
    /\ pascalOut' = toPascalCase(text)
    /\ UNCHANGED <<text, kebabOut, pascalTwice, kebabOfPascal, storageVars>>

\* toKebabCase applied to the typed name.
ApplyKebab ==
    /\ kebabOut = Undefined
    /\ kebabOut' = toKebabCase(text)
    /\ UNCHANGED <<text, pascalOut, pascalTwice, kebabOfPascal, storageVars>>

\* toPascalCase(componentName) of line 142, componentName being the result of line 431.
ApplyPascalAgain ==
    /\ pascalOut # Undefined
    /\ pascalTwice = Undefined
    /\ pascalTwice' = toPascalCase(pascalOut)
    /\ UNCHANGED <<text, pascalOut, kebabOut, kebabOfPascal, storageVars>>

\* toKebabCase(componentName) of line 143, componentName being the result of line 431.
ApplyKebabToPascal ==
    /\ pascalOut # Undefined
    /\ kebabOfPascal = Undefined
    /\ kebabOfPascal' = toKebabCase(pascalOut)
    /\ UNCHANGED <<text, pascalOut, kebabOut, pascalTwice, storageVars>>

CaseNext ==
    \/ ApplyPascal
    \/ ApplyKebab
    \/ ApplyPascalAgain
    \/ ApplyKebabToPascal

SpecCase == CaseInit /\ [][CaseNext]_vars

\* ------------------------------------------- claims on the case converter
\* Number of non-empty words of a text after stripping.
RECURSIVE CountNonEmpty(_)
CountNonEmpty(words) ==
    IF Len(words) = 0 THEN 0
    ELSE (IF Len(Head(words)) > 0 THEN 1 ELSE 0) + CountNonEmpty(Tail(words))

NonEmptyWords(str) == CountNonEmpty(SplitOnSpace(StripNonAlnum(str)))

NotSpace(c) == c # Space
NotHyphen(c) == c # "-"

\* Character by character: of the stripped text, the spaces are dropped,
\* a character that starts the text or follows a space is uppercased and
\* every other character is lowercased.
PascalByPosition(str) ==
    LET s == StripNonAlnum(str)
    IN  IF Len(s) = 0 THEN <<>>
        ELSE SelectSeq([i \in 1..Len(s) |->
                          IF s[i] = Space THEN Space
                          ELSE IF i = 1 \/ s[i - 1] = Space THEN toUpperCase(s[i])
                          ELSE toLowerCase(s[i])],
                       NotSpace)

\* Character by character: of the stripped text, every space becomes one
\* hyphen and every other character is lowercased.
KebabByPosition(str) ==
    LET s == StripNonAlnum(str)
    IN  IF Len(s) = 0 THEN <<>>
        ELSE [i \in 1..Len(s) |-> IF s[i] = Space THEN "-" ELSE toLowerCase(s[i])]

\* The derivation the specification describes: a word that is already fully
\* uppercase is kept, any other word gets its first character uppercased
\* and the rest lowercased.
RECURSIVE MapKeepUppercase(_)
MapKeepUppercase(words) ==
    IF Len(words) = 0 THEN <<>>
    ELSE <<IF AllUppercase(Head(words)) THEN Head(words) ELSE PascalWord(Head(words))>>
         \o MapKeepUppercase(Tail(words))

C4_IdempotentWithoutUppercaseWords ==
    (/\ pascalTwice # Undefined
     /\ \A k \in 1..Len(SplitOnSpace(StripNonAlnum(text))) :
            ~AllUppercase(SplitOnSpace(StripNonAlnum(text))[k]))
        => pascalTwice = pascalOut

\* C4 (amended): on every text with at most one non-empty word, applying
\* toPascalCase a second time changes nothing.
C4_IdempotentOnOneWord ==
    (pascalTwice # Undefined /\ NonEmptyWords(text) <= 1) => pascalTwice = pascalOut

C4_Witness ==
    /\ text = <<"a", "B", "-">>
    /\ pascalOut = <<"A", "b">>
    /\ pascalTwice = <<"A", "b">>

C7_PascalIsAlphanumeric ==
    pascalOut # Undefined =>
        /\ \A i \in 1..Len(pascalOut) : pascalOut[i] \in Lowers \cup Uppers \cup Digits
        /\ text = <<>> => pascalOut = <<>>

C7_Witness ==
    /\ text = <<"a", "-", Space>>
    /\ pascalOut = <<"A">>

C7_WitnessEmpty ==
    /\ text = <<>>
    /\ pascalOut = <<>>

\* ------------------------------------------------ claims on the generator
IsPrefix(a, b) == Len(a) <= Len(b) /\ SubSeq(b, 1, Len(a)) = a

\* What lies under directory d in a set of paths.
Under(d, paths) == {x \in paths : Len(x) > Len(d) /\ IsPrefix(d, x)}

\* The children of directory d in a set of paths.
ChildrenOf(d, paths) == {x \in paths : Len(x) = Len(d) + 1 /\ IsPrefix(d, x)}

\* The component root the specification determines for an invocation: the
\* selected directory when it bears the pascalName, its child of that name
\* otherwise.
ComponentRootAtStart(r) ==
    IF HandleName(r.selectedAtStart) = toPascalCase(r.componentName)
    THEN r.selectedAtStart
    ELSE r.selectedAtStart \o <<toPascalCase(r.componentName)>>

VersionDirAtStart(r) == ComponentRootAtStart(r) \o <<r.version>>

Started(r) == r.pc # "idle" /\ r.selectedAtStart # NoHandle

\* What an operation works on: the entry it asks for, or the file of its stream.
Target(operation) ==
    IF operation.name = <<>> THEN operation.on ELSE operation.on \o <<operation.name>>

\* An operation that creates or writes.
Mutating(operation) ==
    operation.create \/ operation.op \in {"getFileHandle", "createWritable", "write", "close"}

\* C1 (as claimed): an invocation that finds the version directory present
\* under the component root issues no create or write operation on it or
\* inside it and leaves the storage tree as it was, and it ends as skipped
\* ("already exists"); only an invocation one of whose storage operations
\* failed may end otherwise.
C1_ExistingVersionIsSkipped ==
    \A p \in Procs :
        LET r == inv[p]
            v == VersionDirAtStart(r)
        IN  (Started(r) /\ v \in r.dirsAtStart) =>
                /\ \A i \in 1..Len(r.ops) :
                       ~(Mutating(r.ops[i]) /\ IsPrefix(v, Target(r.ops[i])))
                /\ r.pc = "done" =>
                       /\ dirs = r.dirsAtStart
                       /\ files = r.filesAtStart
                       /\ ~r.faulted => r.outcome = "exists"

\* C2 (as claimed): every generated file is named with the pascalName
\* toPascalCase(rawName), the name of the component directory.
C2_FilesNamedAfterComponentDirectory ==
    \A p \in Procs :
        LET r == inv[p]
            pascalName == toPascalCase(r.componentName)
        IN  \A i \in 1..Len(r.ops) :
                r.ops[i].op = "getFileHandle" =>
                    /\ HandleName(r.componentFolderHandle) = pascalName
                    /\ r.ops[i].name \in
                           { weBeanFileName(pascalName), classJsFileName(pascalName),
                             lessFileName(pascalName), testHtmlFileName(pascalName),
                             xmlFileName(pascalName) }

\* C5 (as claimed): the class name written into the markup and style
\* artifacts is toKebabCase(rawName), derived from the words of the typed
\* name.
C5_KebabFromRawName ==
    \A p \in Procs :
        LET r == inv[p]
        IN  \A i \in 1..Len(r.ops) :
                (/\ r.ops[i].op = "close"
                 /\ r.ops[i].ok
                 /\ files[r.ops[i].on].kind \in {"weBean", "less"})
                    => files[r.ops[i].on].kebab = toKebabCase(r.componentName)

\* The tree the specification fixes under version directory v for the
\* derived names: its directories and its files with their content.
FixedDirs(v) ==
    { srcFolderHandle(v), htmlFolderHandle(v), weBeansFolderHandle(v), jsFolderHandle(v),
      lessFolderHandle(v), testFolderHandle(v), testHtmlFolderHandle(v),
      testFolderHandle(v) \o <<(<<"js">>)>> }

FixedFiles(v, pascalName) ==
    { weBeansFolderHandle(v) \o <<weBeanFileName(pascalName)>>,
      jsFolderHandle(v) \o <<classJsFileName(pascalName)>>,
      lessFolderHandle(v) \o <<lessFileName(pascalName)>>,
      testHtmlFolderHandle(v) \o <<testHtmlFileName(pascalName)>>,
      v \o <<xmlFileName(pascalName)>> }

FixedContent(v, f, pascalName, kebabName, description, rootName) ==
    IF f = weBeansFolderHandle(v) \o <<weBeanFileName(pascalName)>>
    THEN weBeanFileContent(pascalName, kebabName)
    ELSE IF f = jsFolderHandle(v) \o <<classJsFileName(pascalName)>>
    THEN classJsFileContent(pascalName, description)
    ELSE IF f = lessFolderHandle(v) \o <<lessFileName(pascalName)>>
    THEN lessFileContent(kebabName)
    ELSE IF f = testHtmlFolderHandle(v) \o <<testHtmlFileName(pascalName)>>
    THEN testHtmlFileContent(pascalName, <<rootName, HandleName(v), xmlFileName(pascalName)>>)
    ELSE EmptyContent

\* An invocation on a valid name that found no version directory and met
\* no storage failure.
FreshRun(r) ==
    /\ r.pc = "done"
    /\ Started(r)
    /\ toPascalCase(r.componentName) # <<>>
    /\ VersionDirAtStart(r) \notin r.dirsAtStart
    /\ ~r.faulted

\* C8 (as claimed): from a root without the version directory and with no
\* storage failure, generate succeeds and the version directory holds
\* exactly the fixed tree: the eight directories, the four content files
\* named after pascalName with their rendered content, and the empty
\* manifest.
C8_FreshRunBuildsFixedTree ==
    \A p \in Procs :
        LET r == inv[p]
            v == VersionDirAtStart(r)
            pascalName == toPascalCase(r.componentName)
            kebabName == toKebabCase(r.componentName)
        IN  FreshRun(r) =>
                /\ r.outcome = "success"
                /\ Under(v, dirs) = FixedDirs(v)
                /\ Under(v, DOMAIN files) = FixedFiles(v, pascalName)
                /\ \A f \in Under(v, DOMAIN files) :
                       files[f] = FixedContent(v, f, pascalName, kebabName,
                                               r.componentDescription,
                                               HandleName(r.selectedAtStart))

\* The directories an invocation holds a handle of before its i-th
\* operation: the selected directory and every directory an earlier
\* getDirectoryHandle of the invocation returned.
FoundBefore(r, i) ==
    {r.selectedAtStart} \cup
    { r.ops[j].on \o <<r.ops[j].name>> :
        j \in {k \in 1..(i - 1) : r.ops[k].ok /\ r.ops[k].op = "getDirectoryHandle"} }

\* The directory in which the operation an invocation is waiting for creates.
PendingCreateIn(r) ==
    IF r.pc \in DirectorySteps \cup FileSteps
    THEN {StepReceiver(r.pc, r.versionFolderHandle)}
    ELSE IF r.pc \in {"createComponent", "createVersion"}
    THEN {r.receiver}
    ELSE {}

\* C9: every create operation of an invocation is issued on a directory the
\* invocation has created or found before: no file or directory is created
\* before its parent.
C9_ParentBeforeChild ==
    \A p \in Procs :
        LET r == inv[p]
        IN  /\ \A i \in 1..Len(r.ops) :
                   (r.ops[i].create \/ r.ops[i].op = "getFileHandle") =>
                       r.ops[i].on \in FoundBefore(r, i)
            /\ PendingCreateIn(r) \subseteq FoundBefore(r, Len(r.ops) + 1)
            /\ PendingCreateIn(r) \subseteq dirs

C9_Witness ==
    \E p \in Procs :
        /\ inv[p].pc = "done"
        /\ inv[p].outcome = "success"
        /\ Cardinality({i \in 1..Len(inv[p].ops) : inv[p].ops[i].create}) = 15

RootStage == {"checkComponent", "getComponent", "createComponent"}

\* C10: when the selected directory bears the pascalName it is the
\* component root and no child of that name is looked up or created in it;
\* otherwise the component root is its child of that name, which is reused
\* when present and created when absent, nothing else is created in the
\* selected directory, and only a failing storage operation keeps the root
\* from being determined.
C10_ComponentRootDetermination ==
    \A p \in Procs :
        LET r == inv[p]
            selected == r.selectedAtStart
            pascalName == toPascalCase(r.componentName)
            child == selected \o <<pascalName>>
        IN  (Started(r) /\ pascalName # <<>>) =>
                IF HandleName(selected) = pascalName
                THEN /\ r.componentFolderHandle = selected
                     /\ \A i \in 1..Len(r.ops) :
                            ~(r.ops[i].on = selected /\ r.ops[i].name = pascalName)
                     /\ child \in dirs => child \in r.dirsAtStart
                ELSE /\ ChildrenOf(selected, dirs) \subseteq
                            ChildrenOf(selected, r.dirsAtStart) \cup {child}
                     /\ child \in r.dirsAtStart =>
                            ChildrenOf(selected, dirs) = ChildrenOf(selected, r.dirsAtStart)
                     /\ r.componentFolderHandle # NoHandle =>
                            (r.componentFolderHandle = child /\ child \in dirs)
                     /\ (r.pc \notin RootStage /\ r.componentFolderHandle = NoHandle) =>
                            r.faulted

\* The child bearing the pascalName was present and is reused.
C10_Witness ==
    \E p \in Procs :
        LET r == inv[p]
            child == r.selectedAtStart \o <<toPascalCase(r.componentName)>>
        IN  /\ r.pc = "checkVersion"
            /\ Started(r)
            /\ child \in r.dirsAtStart
            /\ r.componentFolderHandle = child

\* The child bearing the pascalName was absent and has been created.
C10_WitnessCreated ==
    \E p \in Procs :
        LET r == inv[p]
            child == r.selectedAtStart \o <<toPascalCase(r.componentName)>>
        IN  /\ r.pc = "checkVersion"
            /\ Started(r)
            /\ child \notin r.dirsAtStart
            /\ child \in dirs
            /\ r.componentFolderHandle = child

\* The selected directory bears the pascalName and is the component root.
C10_WitnessSelected ==
    \E p \in Procs :
        LET r == inv[p]
        IN  /\ r.pc = "checkVersion"
            /\ Started(r)
            /\ HandleName(r.selectedAtStart) = toPascalCase(r.componentName)
            /\ r.componentFolderHandle = r.selectedAtStart

\* The operations of createVersionStructure: those issued on the version
\* directory or inside it once createVersionFolder has created it.
InStructure(r, operation) ==
    /\ r.versionFolderHandle # NoHandle
    /\ IsPrefix(r.versionFolderHandle, operation.on)

\* C11: when a create or write operation of the creation sequence under the
\* version directory fails, it is the last storage operation the invocation
\* issues, and the invocation ends by reporting the failure with its cause,
\* not success.
C11_FailureEndsSequenceWithCause ==
    \A p \in Procs :
        LET r == inv[p]
        IN  \A i \in 1..Len(r.ops) :
                (InStructure(r, r.ops[i]) /\ ~r.ops[i].ok) =>
                    /\ i = Len(r.ops)
                    /\ r.pc = "done"
                    /\ r.outcome = "failed"
                    /\ r.cause \notin {"none"}

\* A write failed after the first file had been created and opened.
C11_Witness ==
    \E p \in Procs :
        LET r == inv[p]
        IN  /\ r.pc = "done"
            /\ r.outcome = "failed"
            /\ r.cause = "StorageFault"
            /\ Len(r.ops) > 0
            /\ r.ops[Len(r.ops)].op = "write"
            /\ ~r.ops[Len(r.ops)].ok
            /\ InStructure(r, r.ops[Len(r.ops)])

\* C12 (as claimed): an invocation whose name normalizes to the empty
\* identifier is rejected before any storage interaction: it has ended on
\* submission, has issued no storage operation and has none in flight, and
\* the storage tree is as it was.
C12_EmptyIdentifierRejected ==
    \A p \in Procs :
        LET r == inv[p]
        IN  (r.pc # "idle" /\ toPascalCase(r.componentName) = <<>>) =>
                /\ r.pc = "done"
                /\ r.ops = <<>>
                /\ dirs = r.dirsAtStart
                /\ files = r.filesAtStart

\* C13 (as claimed): an invocation submitted after an earlier invocation
\* with the same selected directory, name, version and description has
\* created the version directory and ended, with success or with a failure
\* partway, leaves the storage tree as it found it.
C13_ReinvocationChangesNothing ==
    \A p \in Procs :
        LET r == inv[p]
        IN  (r.pc # "idle" /\ Inputs(r) \in generated) =>
                /\ dirs = r.dirsAtStart
                /\ files = r.filesAtStart

\* An invocation that ended with a storage failure: reported by the catch
\* block of createVersionStructure, or rejected outside of it.
EndedWithFailure(r) == r.pc = "done" /\ r.outcome \in {"failed", "unhandled"}

\* The content the invocation wrote to file f before closing it.
WrittenBy(r, f) ==
    IF f = StepFile("weBeanFile", r) THEN StepContent("weBeanWrite", r)
    ELSE IF f = StepFile("classJsFile", r) THEN StepContent("classJsWrite", r)
    ELSE IF f = StepFile("lessFile", r) THEN StepContent("lessWrite", r)
    ELSE IF f = StepFile("testHtmlFile", r) THEN StepContent("testHtmlWrite", r)
    ELSE EmptyContent

\* What the operations of an invocation that succeeded have left in storage:
\* the directories and files they created and the content of closed files.
Kept(r) ==
    \A i \in 1..Len(r.ops) :
        r.ops[i].ok =>
            /\ (r.ops[i].op = "getDirectoryHandle" /\ r.ops[i].create)
                   => Target(r.ops[i]) \in dirs
            /\ r.ops[i].op = "getFileHandle"
                   => Target(r.ops[i]) \in DOMAIN files
            /\ r.ops[i].op = "close"
                   => /\ r.ops[i].on \in DOMAIN files
                      /\ files[r.ops[i].on] = WrittenBy(r, r.ops[i].on)

\* C14: no rollback.  When an invocation has ended with a storage failure,
\* every directory and file its earlier operations created exists, the
\* component and version directories included, and every file it closed
\* holds the content written to it; and the step in which an invocation
\* fails removes no directory and no file and changes no content.
C14_NoRollback ==
    /\ [](\A p \in Procs : EndedWithFailure(inv[p]) => Kept(inv[p]))
    /\ [][\A p \in Procs :
             (~EndedWithFailure(inv[p]) /\ EndedWithFailure(inv'[p]))
                 => (dirs' = dirs /\ files' = files)]_vars

\* A failure after the component directory, the version directory and the
\* first file were created and the file was written and closed.
C14_Witness ==
    \E p \in Procs :
        LET r == inv[p]
        IN  /\ EndedWithFailure(r)
            /\ r.componentFolderHandle \notin r.dirsAtStart
            /\ r.versionFolderHandle \notin r.dirsAtStart
            /\ r.versionFolderHandle \in dirs
            /\ \E i \in 1..Len(r.ops) :
                   /\ r.ops[i].op = "close"
                   /\ r.ops[i].ok
                   /\ files[r.ops[i].on].kind = "weBean"

\* The entries an invocation has asked the storage to create under its
\* version directory, in the order of the requests.
RECURSIVE CreationsIn(_, _)
CreationsIn(r, n) ==
    IF n = 0 THEN <<>>
    ELSE IF /\ InStructure(r, r.ops[n])
            /\ r.ops[n].op \in {"getDirectoryHandle", "getFileHandle"}
            /\ r.ops[n].create
         THEN Append(CreationsIn(r, n - 1), Target(r.ops[n]))
         ELSE CreationsIn(r, n - 1)

Creations(r) == CreationsIn(r, Len(r.ops))

\* The depth-first order of the fixed tree under version directory v, the
\* files bearing the name pascal.
DepthFirstOrder(v, pascal) ==
    << srcFolderHandle(v),
       htmlFolderHandle(v),
       weBeansFolderHandle(v),
       weBeansFolderHandle(v) \o <<weBeanFileName(pascal)>>,
       jsFolderHandle(v),
       jsFolderHandle(v) \o <<classJsFileName(pascal)>>,
       lessFolderHandle(v),
       lessFolderHandle(v) \o <<lessFileName(pascal)>>,
       testFolderHandle(v),
       testHtmlFolderHandle(v),
       testHtmlFolderHandle(v) \o <<testHtmlFileName(pascal)>>,
       testFolderHandle(v) \o <<(<<"js">>)>>,
       v \o <<xmlFileName(pascal)>> >>

\* The order of the amended claim: the four folders of src, then weBeans
\* and the three files of src, then the three folders of test, then the
\* test page and the manifest.
FoldersFirstOrder(v, pascal) ==
    << srcFolderHandle(v),
       htmlFolderHandle(v),
       jsFolderHandle(v),
       lessFolderHandle(v),
       weBeansFolderHandle(v),
       weBeansFolderHandle(v) \o <<weBeanFileName(pascal)>>,
       jsFolderHandle(v) \o <<classJsFileName(pascal)>>,
       lessFolderHandle(v) \o <<lessFileName(pascal)>>,
       testFolderHandle(v),
       testHtmlFolderHandle(v),
       testFolderHandle(v) \o <<(<<"js">>)>>,
       testHtmlFolderHandle(v) \o <<testHtmlFileName(pascal)>>,
       v \o <<xmlFileName(pascal)>> >>

\* C15 (as claimed): the directories and files under the version directory
\* are created strictly in the depth-first order of the fixed tree: what an
\* invocation has asked to create so far is a beginning of that order.
C15_CreatedDepthFirst ==
    \A p \in Procs :
        LET r == inv[p]
        IN  IsPrefix(Creations(r),
                     DepthFirstOrder(r.versionFolderHandle, r.structPascalCaseName))

\* C15 (amended): the directories and files under the version directory are
\* created strictly in this order: src, src/html, src/js, src/less,
\* src/html/weBeans, the weBean file, the class file, the less file, test,
\* test/html, test/js, the test page, the manifest.
C15_CreatedFoldersFirst ==
    \A p \in Procs :
        LET r == inv[p]
        IN  IsPrefix(Creations(r),
                     FoldersFirstOrder(r.versionFolderHandle, r.structPascalCaseName))

\* A successful invocation has created all thirteen entries.
C15_Witness ==
    \E p \in Procs :
        LET r == inv[p]
        IN  /\ r.pc = "done"
            /\ r.outcome = "success"
            /\ Creations(r) =
                   FoldersFirstOrder(r.versionFolderHandle, r.structPascalCaseName)

\* ------------------------------------- more claims on the case converter
NonEmpty(word) == word # <<>>

\* A text with its leading and trailing spaces removed and every run of
\* spaces replaced by one space.
CollapseSpaces(str) == JoinWords(SelectSeq(SplitOnSpace(str), NonEmpty), <<Space>>)

\* No hyphen at either end and no two hyphens in a row.
HyphensOnlyBetweenWords(str) ==
    \/ str = <<>>
    \/ /\ str[1] # "-"
       /\ str[Len(str)] # "-"
       /\ \A i \in 1..(Len(str) - 1) : ~(str[i] = "-" /\ str[i + 1] = "-")

\* C16 (as claimed): runs of spaces and leading or trailing spaces produce
\* no empty token: the result of toKebabCase has no leading hyphen, no
\* trailing hyphen and no two adjacent hyphens, and toPascalCase and
\* toKebabCase give for a text the result they give for the text with its
\* spaces collapsed.
C16_SpacesCollapse ==
    /\ pascalOut # Undefined => pascalOut = toPascalCase(CollapseSpaces(text))
    /\ kebabOut # Undefined =>
           /\ HyphensOnlyBetweenWords(kebabOut)
           /\ kebabOut = toKebabCase(CollapseSpaces(text))

\* ------------------------------------------ more claims on the generator
\* The test pages an invocation has written and closed.
TestPagesOf(r) ==
    { r.ops[i].on : i \in { j \in 1..Len(r.ops) :
                              /\ r.ops[j].op = "close"
                              /\ r.ops[j].ok
                              /\ r.ops[j].on = StepFile("testHtmlFile", r) } }

\* The names under which an invocation has asked for the manifest file.
ManifestNamesOf(r) ==
    { r.ops[i].name : i \in { j \in 1..Len(r.ops) :
                                /\ r.ops[j].op = "getFileHandle"
                                /\ r.ops[j].on = r.versionFolderHandle } }

\* C17: the test page an invocation has written references the manifest by
\* the path /{rootName}/{version}/{manifest file name}: rootName is the name
\* of the selected directory, version the name of the version directory,
\* which is the version chosen in the form, and the file name is the one
\* under which the invocation creates the manifest, the identifier followed
\* by .component.xml.
C17_TestPageReferencesManifest ==
    \A p \in Procs :
        LET r == inv[p]
        IN  \A f \in TestPagesOf(r) :
                /\ files[f].kind = "testHtml"
                /\ Len(files[f].componentPath) = 3
                /\ files[f].componentPath[1] = HandleName(r.selectedAtStart)
                /\ files[f].componentPath[2] = HandleName(r.versionFolderHandle)
                /\ files[f].componentPath[2] = r.version
                /\ files[f].componentPath[3] = xmlFileName(r.structPascalCaseName)
                /\ ManifestNamesOf(r) \subseteq {files[f].componentPath[3]}

\* The selected directory is the parent of the component directory, and the
\* test page and the manifest have both been created.
C17_Witness ==
    \E p \in Procs :
        LET r == inv[p]
        IN  /\ r.pc = "done"
            /\ r.outcome = "success"
            /\ r.selectedAtStart = RootDir
            /\ TestPagesOf(r) # {}
            /\ ManifestNamesOf(r) # {}

\* What an invocation can report to the user: the request to select a
\* directory, "already exists" (skipped), success, or the error message of a
\* failure.
ReportedOutcomes == {"selectFirst", "exists", "success", "failed"}

\* C18 (as claimed): an invocation on a name with a non-empty identifier
\* that has terminated has reported one outcome to the user, also when the
\* creation of the component directory or of the version directory failed.
C18_TerminatedHasReported ==
    \A p \in Procs :
        LET r == inv[p]
        IN  (r.pc = "done" /\ toPascalCase(r.componentName) # <<>>) =>
                r.outcome \in ReportedOutcomes

\* The version directory the existence check of an invocation asks for.
CheckedVersionDir(r) == r.receiver \o <<r.version>>

\* The invocation found the version directory absent and went on.
PastTheCheck(r) ==
    /\ r.pc \notin {"idle", "checkComponent", "getComponent", "createComponent",
                    "checkVersion"}
    /\ r.outcome \notin {"exists", "selectFirst", "unhandled"}
    /\ ~r.faulted

\* C19: nothing but the storage decides the existence check.  When the
\* check of an invocation settles while the version directory is not in the
\* storage, the invocation goes on to create it, wherever the other
\* invocation stands: two invocations on the same component root and
\* version can both be past the check.
C19_CheckAndCreateNotAtomic ==
    [][\A p \in Procs :
         (/\ inv[p].pc = "checkVersion"
          /\ inv'[p].pc # "checkVersion"
          /\ CheckedVersionDir(inv[p]) \notin dirs)
             => inv'[p].pc = "createVersion"]_vars

\* Both invocations found the same version directory absent, and both have
\* created and written in it.
C19_Witness ==
    \E p, q \in Procs :
        /\ p # q
        /\ PastTheCheck(inv[p])
        /\ PastTheCheck(inv[q])
        /\ inv[p].versionFolderHandle # NoHandle
        /\ inv[p].versionFolderHandle = inv[q].versionFolderHandle
        /\ inv[p].versionFolderHandle \notin inv[p].dirsAtStart
        /\ inv[q].versionFolderHandle \notin inv[q].dirsAtStart
        /\ \A r \in {inv[p], inv[q]} :
               \E i \in 1..Len(r.ops) : r.ops[i].op = "close" /\ r.ops[i].ok

\* An operation that did what it was asked: it resolved, or it is a lookup
\* without create that answered "not found".
CompletedSuccessfully(operation) ==
    \/ operation.ok
    \/ /\ operation.op = "getDirectoryHandle"
       /\ ~operation.create
       /\ operation.error = "NotFoundError"

\* An invocation that is waiting for a storage operation it has issued.
Awaiting(r) == r.pc \notin {"idle", "done"}

\* C20 (as claimed): the storage operations of an invocation on a name with
\* a non-empty identifier are strictly sequential, each one issued only
\* after the previous one has completed successfully: every operation that
\* was followed by another one, settled or in flight, completed
\* successfully.
C20_IssuedAfterSuccess ==
    \A p \in Procs :
        LET r == inv[p]
        IN  toPascalCase(r.componentName) # <<>> =>
                \A i \in 1..Len(r.ops) :
                    (i < Len(r.ops) \/ Awaiting(r)) => CompletedSuccessfully(r.ops[i])

\* C21: within one invocation no path under the version directory is the
\* target of more than one create operation.
C21_EachPathCreatedOnce ==
    \A p \in Procs :
        LET created == Creations(inv[p])
        IN  \A i, j \in 1..Len(created) : created[i] = created[j] => i = j

\* All thirteen paths have been asked for, each by one operation.
C21_Witness ==
    \E p \in Procs :
        LET r == inv[p]
        IN  /\ r.pc = "done"
            /\ r.outcome = "success"
            /\ Len(Creations(r)) = 13
            /\ Cardinality({Creations(r)[i] : i \in 1..Len(Creations(r))}) = 13

\* C22 (as claimed): an invocation on a name with a non-empty identifier
\* uses the directory that was selected when it started throughout, also
\* when another directory is selected while it awaits the storage: the
\* lookup and the creation of the component directory are issued on that
\* directory, the component root is the one determined from it, and the
\* path written to the test page starts with its name.
C22_OneTargetDirectory ==
    \A p \in Procs :
        LET r == inv[p]
        IN  (Started(r) /\ toPascalCase(r.componentName) # <<>>) =>
                /\ r.pc \in RootStage => r.receiver = r.selectedAtStart
                /\ r.componentFolderHandle # NoHandle =>
                       r.componentFolderHandle = ComponentRootAtStart(r)
                /\ r.componentPath # NoHandle =>
                       r.componentPath[1] = HandleName(r.selectedAtStart)

\* The existence check of the version directory failed for a reason other
\* than absence, the directory being there.
FailedCheckOfExisting(r, operation) ==
    /\ operation.op = "getDirectoryHandle"
    /\ ~operation.create
    /\ operation.on = r.componentFolderHandle
    /\ operation.name = r.version
    /\ operation.error \notin {"none", "NotFoundError"}
    /\ Target(operation) \in r.dirsAtStart

\* C23 (as claimed): after an existence check of the version directory
\* that failed with a storage error while the directory exists, the
\* invocation issues no create and no write operation inside the directory,
\* settled or in flight, and what the directory holds stays as it was.
C23_FailedCheckDoesNotOverwrite ==
    \A p \in Procs :
        LET r == inv[p]
        IN  \A i \in 1..Len(r.ops) :
                FailedCheckOfExisting(r, r.ops[i]) =>
                    LET v == Target(r.ops[i])
                    IN  /\ r.pc \notin (DirectorySteps \cup FileSteps \cup WritableSteps
                                          \cup WriteSteps \cup CloseSteps)
                        /\ \A j \in (i + 1)..Len(r.ops) :
                               ~(Mutating(r.ops[j]) /\ IsPrefix(v, Target(r.ops[j])))
                        /\ Under(v, dirs) = Under(v, r.dirsAtStart)
                        /\ \A f \in Under(v, DOMAIN files) :
                               f \in DOMAIN r.filesAtStart /\ files[f] = r.filesAtStart[f]

\* The four content files of the invocation's version directory.
ContentFiles(r) ==
    { StepFile("weBeanFile", r), StepFile("classJsFile", r),
      StepFile("lessFile", r), StepFile("testHtmlFile", r) }

\* The invocation has written file f and closed it.
WrittenAndClosed(r, f) ==
    /\ f \in DOMAIN files
    /\ files[f] # EmptyContent
    /\ files[f] = WrittenBy(r, f)
    /\ \E i \in 1..Len(r.ops) :
           r.ops[i].op = "close" /\ r.ops[i].on = f /\ r.ops[i].ok

\* C24: the manifest is created last.  In every state of an invocation
\* that found no version directory, if the version directory holds a file
\* of its own, the manifest, then the eight directories exist and the four
\* content files exist, written and closed.
C24_ManifestCreatedLast ==
    \A p \in Procs :
        LET r == inv[p]
            v == r.versionFolderHandle
        IN  (/\ Started(r)
             /\ v # NoHandle
             /\ v \notin r.dirsAtStart
             /\ ChildrenOf(v, DOMAIN files) # {}) =>
                /\ ChildrenOf(v, DOMAIN files) = {v \o <<xmlFileName(r.structPascalCaseName)>>}
                /\ FixedDirs(v) \subseteq dirs
                /\ \A f \in ContentFiles(r) : WrittenAndClosed(r, f)

\* The manifest has just been created and is not yet opened.
C24_Witness ==
    \E p \in Procs :
        LET r == inv[p]
            v == r.versionFolderHandle
        IN  /\ r.pc = "xmlWritable"
            /\ v \notin r.dirsAtStart
            /\ (v \o <<xmlFileName(r.structPascalCaseName)>>) \in DOMAIN files

IsSuffix(a, b) == Len(a) <= Len(b) /\ SubSeq(b, Len(b) - Len(a) + 1, Len(b)) = a

\* Where the invocation creates its manifest.
ManifestLocation(r) == r.versionFolderHandle \o <<xmlFileName(r.structPascalCaseName)>>

\* C25 (as claimed): the manifest path written to the test page designates
\* the place where the manifest is created, whether the selected directory
\* is the component root or its parent: the segments of the path are the
\* last segments of the manifest's location (component directory, version
\* directory, file name).
C25_PathDesignatesManifest ==
    \A p \in Procs :
        LET r == inv[p]
        IN  \A f \in TestPagesOf(r) :
                /\ IsSuffix(files[f].componentPath, ManifestLocation(r))
                /\ files[f].componentPath[1] = HandleName(r.componentFolderHandle)

\* C26: an invocation started while no directory is selected, also after a
\* cancelled or failed pick, has ended on submission with the request to
\* select a directory; it has issued no storage operation and the storage
\* is as it was.
C26_NoSelectionNoStorage ==
    \A p \in Procs :
        LET r == inv[p]
        IN  (r.pc # "idle" /\ r.selectedAtStart = NoHandle) =>
                /\ r.pc = "done"
                /\ r.outcome = "selectFirst"
                /\ r.ops = <<>>
                /\ dirs = r.dirsAtStart
                /\ files = r.filesAtStart

\* The form was submitted after a pick that failed and none that succeeded.
C26_Witness ==
    \E p \in Procs :
        /\ pickFailed
        /\ selectedDirectoryHandle = NoHandle
        /\ inv[p].pc = "done"
        /\ inv[p].outcome = "selectFirst"
        /\ inv[p].ops = <<>>

====
